---- MODULE Spec2Model ----
(***************************************************************************)
(* MANTIS2: the streaming repeat finder (repeat_finder.rs) and the         *)
(* repeat-counter pipeline (repeat_counter.rs).                            *)
(*                                                                         *)
(* Bases are bytes (ASCII codes).  An Option<T> is a sequence of length    *)
(* 0 (None) or 1 (Some).                                                   *)
(***************************************************************************)
EXTENDS Integers, Sequences, FiniteSets, TLC

\* ------------------------------------------------------------------------
\* Bounds of the finder model
\* ------------------------------------------------------------------------
MaxBases == 5          \* total number of bases over all FASTA records
MaxContigs == 2        \* number of FASTA records

\* the values drawn for the options
MinBasesValues == 2..3
MaxBasesValues == 3..4
MinRepeatsValues == 1..2
RepeatLengthRanges == {<<1, 3>>, <<2, 3>>}

\* the contigs are drawn over 'A', 'C' and the lower-case 'a', or over
\* 'A', 'C' and 'G'
Alphabets == {{65, 67, 97}, {65, 67, 71}}

None == <<>>
Some(x) == <<x>>

\* base & 0xdf: clear bit 5
ToUpper(b) == IF (b \div 32) % 2 = 1 THEN b - 32 ELSE b

VARIABLES
    opts,       \* the finder's options
    records,    \* the FASTA records read so far; the last one is the current one
    fpc,        \* "next_record", "bases", "done", "panicked"
    i,          \* the 1-based loop variable of the base loop
    finders,    \* k -> KmerFinder
    bed,        \* the BED records written so far
    alphabet,   \* the bytes the input is drawn from
    step,       \* history: the last base step or end-of-contig step, if any
    fasta,      \* Some(the records of the FASTA file) when the input is a given
                \* file, None when it is drawn base by base
    probe,      \* the argument of a call of is_repeat on its own
    answer      \* what that call returned, if it has returned

fvars == <<opts, records, fpc, i, finders, bed, alphabet, step, fasta, probe, answer>>

VARIABLES
    threads,        \* --threads
    catalog,        \* the BED file: a sequence of loci
    bam,            \* is_normal -> the reads of that sample's BAM, in file order
    dpc,            \* the driver: "enqueue", "join_query", "join_worker",
                    \* "join_counter", "done" (exit code 0), "panicked", "errored"
                    \* (run has ended, the process has not exited yet),
                    \* "exited_101", "exited_1"
    idx,            \* the driver: 1-based ordinal of the next BED record
    half,           \* the driver: the next job to send for that record
    joined,         \* the driver: number of handles joined in the current join loop
    held,           \* the channel senders the driver has not dropped yet
    bam_query_q,    \* the jobs in the bam_query_job channel
    worker_q,       \* the jobs in the worker_job channel
    counter_q,      \* the jobs in the counter_job channel
    query_threads,  \* w -> [pc, pending]: the BAM query threads
    worker_threads, \* w -> [pc, job]: the worker threads
    apc,            \* the counter thread: "recv", "print", "done", "panicked"
    key_to_locus,   \* the counter thread's map from key to locus
    counter,        \* the counter thread's map key -> count -> is_normal -> reads
    to_print,       \* the lines the counter thread has still to print
    output,         \* the lines printed
    sent,           \* history: the query jobs the driver has sent
    flow,           \* history: the jobs each stage has received or sent so far
    run_no,         \* 1, or 2 in the run with the two BAMs exchanged
    first_output    \* the output of run 1, kept during run 2

cvars == <<threads, catalog, bam, dpc, idx, half, joined, held, bam_query_q, worker_q,
           counter_q, query_threads, worker_threads, apc, key_to_locus, counter,
           to_print, output, sent, flow, run_no, first_output>>

vars == <<fvars, cvars>>

\* ------------------------------------------------------------------------
\* is_repeat
\* ------------------------------------------------------------------------
RECURSIVE is_repeat_scan(_, _, _)
is_repeat_scan(unit, ii, j) ==
    IF j <= Len(unit) /\ unit[ii] = unit[j]
    THEN is_repeat_scan(unit, ii + 1, j + 1)
    ELSE j

RECURSIVE is_repeat_from(_, _)
is_repeat_from(unit, kmer_size) ==
    IF kmer_size <= 0 THEN FALSE
    ELSE IF Len(unit) % kmer_size = 0
            /\ is_repeat_scan(unit, 1, kmer_size + 1) = Len(unit) + 1
         THEN TRUE
         ELSE is_repeat_from(unit, kmer_size - 1)

is_repeat_never(unit) == FALSE

is_repeat_always(unit) == TRUE

\* only the unit of half the length is tried
is_repeat_half(unit) ==
    /\ Len(unit) \div 2 > 0
    /\ Len(unit) % (Len(unit) \div 2) = 0
    /\ is_repeat_scan(unit, 1, (Len(unit) \div 2) + 1) = Len(unit) + 1

is_repeat(unit) == is_repeat_from(unit, Len(unit) \div 2)

\* ------------------------------------------------------------------------
\* KmerFinder.  kmer is 1-indexed here, index stays 0-based as in the code.
\* ------------------------------------------------------------------------
KmerFinder_new(size) == [kmer |-> [x \in 1..size |-> 110], index |-> 0, span |-> 0]

KmerFinder_len(f) == Len(f.kmer)

\* the finder is left as the previous contig left it
KmerFinder_keep(f) == f

KmerFinder_reset(f) == [kmer |-> [x \in 1..KmerFinder_len(f) |-> 110], index |-> 0, span |-> 0]

emit_no_rotation(f) ==
    IF f.span < KmerFinder_len(f) THEN None
    ELSE Some([kmer |-> f.kmer,
               num_repeats |-> f.span \div KmerFinder_len(f),
               span |-> f.span])

\* the span is cut to whole copies of the unit
emit_whole_units(f) ==
    IF f.span < KmerFinder_len(f) THEN None
    ELSE LET k == KmerFinder_len(f)
             remainder == f.span % k
             j0 == IF remainder <= f.index THEN f.index - remainder
                   ELSE f.index + k - remainder
         IN Some([kmer |-> [x \in 1..k |-> f.kmer[((j0 + x - 1) % k) + 1]],
                  num_repeats |-> f.span \div k,
                  span |-> (f.span \div k) * k])

\* the unit is read from the index, whatever the span
emit_from_index(f) ==
    IF f.span < KmerFinder_len(f) THEN None
    ELSE LET k == KmerFinder_len(f)
         IN Some([kmer |-> [x \in 1..k |-> f.kmer[((f.index + x - 1) % k) + 1]],
                  num_repeats |-> f.span \div k,
                  span |-> f.span])

emit(f) ==
    IF f.span < KmerFinder_len(f) THEN None
    ELSE LET k == KmerFinder_len(f)
             remainder == f.span % k
             j0 == IF remainder <= f.index THEN f.index - remainder
                   ELSE f.index + k - remainder
         IN Some([kmer |-> [x \in 1..k |-> f.kmer[((j0 + x - 1) % k) + 1]],
                  num_repeats |-> f.span \div k,
                  span |-> f.span])

\* after a break the new repeat starts at the breaking base
add_maybe_emit_restart(f, base, do_emit) ==
    LET k == KmerFinder_len(f)
        advance(g) == [g EXCEPT !.index = IF g.index = k - 1 THEN 0 ELSE g.index + 1,
                                !.span = g.span + 1]
    IN IF f.span < k
       THEN [finder |-> advance([f EXCEPT !.kmer[f.index + 1] = base]), retval |-> None]
       ELSE IF f.kmer[f.index + 1] = base
       THEN [finder |-> advance(f), retval |-> None]
       ELSE [finder |-> advance([f EXCEPT !.span = 0, !.kmer[f.index + 1] = base]),
             retval |-> IF do_emit THEN emit(f) ELSE None]

\* the breaking base is not written to the buffer
add_maybe_emit_stale(f, base, do_emit) ==
    LET k == KmerFinder_len(f)
        advance(g) == [g EXCEPT !.index = IF g.index = k - 1 THEN 0 ELSE g.index + 1,
                                !.span = g.span + 1]
    IN IF f.span < k
       THEN [finder |-> advance([f EXCEPT !.kmer[f.index + 1] = base]), retval |-> None]
       ELSE IF f.kmer[f.index + 1] = base
       THEN [finder |-> advance(f), retval |-> None]
       ELSE [finder |-> advance([f EXCEPT !.span = k - 1]),
             retval |-> IF do_emit THEN emit(f) ELSE None]

\* a finder that is not asked to emit does not restart on a break
add_maybe_emit_skip(f, base, do_emit) ==
    LET k == KmerFinder_len(f)
        advance(g) == [g EXCEPT !.index = IF g.index = k - 1 THEN 0 ELSE g.index + 1,
                                !.span = g.span + 1]
    IN IF f.span < k
       THEN [finder |-> advance([f EXCEPT !.kmer[f.index + 1] = base]), retval |-> None]
       ELSE IF f.kmer[f.index + 1] = base \/ ~ do_emit
       THEN [finder |-> advance(f), retval |-> None]
       ELSE [finder |-> advance([f EXCEPT !.span = k - 1, !.kmer[f.index + 1] = base]),
             retval |-> emit(f)]

\* the finder after the call, and the returned value
add_maybe_emit(f, base, do_emit) ==
    LET k == KmerFinder_len(f)
        advance(g) == [g EXCEPT !.index = IF g.index = k - 1 THEN 0 ELSE g.index + 1,
                                !.span = g.span + 1]
    IN IF f.span < k
       THEN [finder |-> advance([f EXCEPT !.kmer[f.index + 1] = base]), retval |-> None]
       ELSE IF f.kmer[f.index + 1] = base
       THEN [finder |-> advance(f), retval |-> None]
       ELSE [finder |-> advance([f EXCEPT !.span = k - 1, !.kmer[f.index + 1] = base]),
             retval |-> IF do_emit THEN emit(f) ELSE None]

\* ------------------------------------------------------------------------
\* to_bed_record: None, or Some(record); start 0 cannot be made a Position
\* ------------------------------------------------------------------------
to_bed_record_exclusive(o, contig, position, f, repeat) ==
    IF repeat.span <= o.min_bases
       \/ o.max_bases < repeat.span
       \/ repeat.span \div KmerFinder_len(f) < o.min_repeats
       \/ is_repeat(repeat.kmer)
    THEN None
    ELSE Some([contig |-> contig,
               start |-> position - repeat.span,
               end |-> position - 1,
               unit |-> repeat.kmer,
               num |-> repeat.span \div KmerFinder_len(f)])

\* the start is taken one base before the repeat
to_bed_record_early(o, contig, position, f, repeat) ==
    IF repeat.span < o.min_bases
       \/ o.max_bases < repeat.span
       \/ repeat.span \div KmerFinder_len(f) < o.min_repeats
       \/ is_repeat(repeat.kmer)
    THEN None
    ELSE Some([contig |-> contig,
               start |-> position - repeat.span - 1,
               end |-> position - 1,
               unit |-> repeat.kmer,
               num |-> repeat.span \div KmerFinder_len(f)])

to_bed_record(o, contig, position, f, repeat) ==
    IF repeat.span < o.min_bases
       \/ o.max_bases < repeat.span
       \/ repeat.span \div KmerFinder_len(f) < o.min_repeats
       \/ is_repeat(repeat.kmer)
    THEN None
    ELSE Some([contig |-> contig,
               start |-> position - repeat.span,
               end |-> position - 1,
               unit |-> repeat.kmer,
               num |-> repeat.span \div KmerFinder_len(f)])

\* ------------------------------------------------------------------------
\* run: the loop over the finders for one base (lines 95-108)
\* ------------------------------------------------------------------------
\* every finder that breaks is asked to emit and every passing repeat is written
base_loop_all(o, contig, position, base, k, fs, acc) ==
    [finders |-> [kk \in DOMAIN fs |-> add_maybe_emit(fs[kk], base, TRUE).finder],
     written |-> LET emitting == {kk \in DOMAIN fs :
                        /\ add_maybe_emit(fs[kk], base, TRUE).retval # None
                        /\ to_bed_record(o, contig, position, fs[kk],
                               add_maybe_emit(fs[kk], base, TRUE).retval[1]) # None}
                     RECURSIVE all(_)
                     all(kk) == IF kk > o.max_repeat_length THEN <<>>
                                ELSE (IF kk \in emitting
                                      THEN to_bed_record(o, contig, position, fs[kk],
                                               add_maybe_emit(fs[kk], base, TRUE).retval[1])
                                      ELSE <<>>) \o all(kk + 1)
                 IN all(o.min_repeat_length)]

\* the first finder that returns a repeat silences the others, whether or
\* not its repeat passes the filters
base_loop_first(o, contig, position, base, k, fs, acc) ==
    LET RECURSIVE loop(_, _, _, _)
        loop(kk, gs, written, found) ==
            IF kk > o.max_repeat_length THEN [finders |-> gs, written |-> written]
            ELSE LET r == add_maybe_emit(gs[kk], base, ~ found)
                     rec == IF r.retval # None /\ ~ found
                            THEN to_bed_record(o, contig, position, r.finder, r.retval[1])
                            ELSE None
                 IN loop(kk + 1, [gs EXCEPT ![kk] = r.finder], written \o rec,
                         found \/ r.retval # None)
    IN loop(k, fs, acc, FALSE)

RECURSIVE base_loop(_, _, _, _, _, _, _)
base_loop(o, contig, position, base, k, fs, acc) ==
    IF k > o.max_repeat_length THEN [finders |-> fs, written |-> acc]
    ELSE LET r == add_maybe_emit(fs[k], base, acc = <<>>)
             rec == IF r.retval # None /\ acc = <<>>
                    THEN to_bed_record(o, contig, position, r.finder, r.retval[1])
                    ELSE None
         IN base_loop(o, contig, position, base, k + 1,
                      [fs EXCEPT ![k] = r.finder], acc \o rec)

\* nothing is written at the end of a contig
end_loop_silent(o, contig, position, k, fs) == <<>>

\* the loop over the finders at the end of a contig (lines 113-124)
RECURSIVE end_loop(_, _, _, _, _)
end_loop(o, contig, position, k, fs) ==
    IF k > o.max_repeat_length THEN <<>>
    ELSE LET repeat == emit(fs[k])
             rec == IF repeat # None
                    THEN to_bed_record(o, contig, position, fs[k], repeat[1])
                    ELSE None
         IN IF rec # None THEN rec
            ELSE end_loop(o, contig, position, k + 1, fs)

HasBadPosition(written) == \E x \in 1..Len(written) : written[x].start < 1

\* ------------------------------------------------------------------------
\* The finder as a state machine
\* ------------------------------------------------------------------------
OptsSet ==
    { [min_bases |-> mb, max_bases |-> xb, min_repeats |-> mr,
       min_repeat_length |-> lo, max_repeat_length |-> hi] :
        mb \in MinBasesValues, xb \in MaxBasesValues, mr \in MinRepeatsValues,
        lo \in {r[1] : r \in RepeatLengthRanges}, hi \in {r[2] : r \in RepeatLengthRanges} }

\* the variables of the input and of the call of is_repeat on its own
ivars == <<fasta, probe, answer>>

TotalBases == LET RECURSIVE sum(_)
                  sum(n) == IF n = 0 THEN 0 ELSE Len(records[n]) + sum(n - 1)
              IN sum(Len(records))

\* the reader has another record: of the given file, or one more is drawn
more_records ==
    IF fasta = None THEN Len(records) < MaxContigs ELSE Len(records) < Len(fasta[1])

\* the bytes the current record can have at position i: the byte of the given
\* file, or any byte of the alphabet while bases are left to draw
next_bases ==
    IF fasta = None
    THEN IF TotalBases < MaxBases THEN alphabet ELSE {}
    ELSE IF i <= Len(fasta[1][Len(records)]) THEN {fasta[1][Len(records)][i]} ELSE {}

\* bags of jobs: job -> the number of times it was counted
bag_count(bag, job) == IF job \in DOMAIN bag THEN bag[job] ELSE 0
bag_add(bag, job) == (job :> (bag_count(bag, job) + 1)) @@ bag

\* no job has been received or sent
NoFlow == [queried |-> <<>>, enqueued |-> <<>>, worked |-> <<>>, counted |-> <<>>]

\* what identifies the jobs of one BED record and one sample
job_of(locus, is_normal) == [locus |-> locus, is_normal |-> is_normal]

\* the repeat counter is not running
IdleCounter ==
    /\ threads = 1
    /\ catalog = <<>>
    /\ bam = [n \in BOOLEAN |-> <<>>]
    /\ dpc = "done"
    /\ idx = 1
    /\ half = "normal"
    /\ joined = 0
    /\ held = {}
    /\ bam_query_q = <<>>
    /\ worker_q = <<>>
    /\ counter_q = <<>>
    /\ query_threads = <<>>
    /\ worker_threads = <<>>
    /\ apc = "done"
    /\ key_to_locus = <<>>
    /\ counter = <<>>
    /\ to_print = <<>>
    /\ output = <<>>
    /\ sent = <<>>
    /\ flow = NoFlow
    /\ run_no = 1
    /\ first_output = <<>>

InitFinder ==
    /\ opts \in {o \in OptsSet : o.min_repeat_length <= o.max_repeat_length}
    /\ records = <<>>
    /\ fpc = "next_record"
    /\ i = 0
    /\ finders = [k \in opts.min_repeat_length..opts.max_repeat_length |-> KmerFinder_new(k)]
    /\ bed = <<>>
    /\ alphabet \in Alphabets
    /\ step = None
    /\ fasta = None
    /\ probe = <<>>
    /\ answer = None
    /\ IdleCounter

\* lines 73-83: the next record is read and every finder is reset
StartContig ==
    /\ fpc = "next_record"
    /\ more_records
    /\ records' = Append(records, <<>>)
    /\ finders' = [k \in DOMAIN finders |-> KmerFinder_reset(finders[k])]
    /\ i' = 1
    /\ fpc' = "bases"
    /\ UNCHANGED <<opts, bed, alphabet, step, ivars>>
    /\ UNCHANGED cvars

\* lines 84-110: one iteration of the base loop
BaseStep ==
    /\ fpc = "bases"
    /\ \E raw \in next_bases :
        LET contig == Len(records)
            r == base_loop(opts, contig, i, ToUpper(raw), opts.min_repeat_length,
                           finders, <<>>)
        IN /\ records' = [records EXCEPT ![contig] = Append(@, raw)]
           /\ finders' = r.finders
           /\ bed' = bed \o r.written
           /\ step' = Some([kind |-> "base", contig |-> contig, position |-> i,
                            before |-> finders, base |-> ToUpper(raw),
                            written |-> r.written])
           /\ fpc' = IF HasBadPosition(r.written) THEN "panicked" ELSE "bases"
           /\ i' = i + 1
    /\ UNCHANGED <<opts, alphabet, ivars>>
    /\ UNCHANGED cvars

\* lines 112-124: the record has no more bases
EndOfContig ==
    /\ fpc = "bases"
    /\ fasta # None => next_bases = {}
    /\ LET contig == Len(records)
           written == end_loop(opts, contig, i, opts.min_repeat_length, finders)
       IN /\ bed' = bed \o written
          /\ step' = Some([kind |-> "end", contig |-> contig, position |-> i,
                           before |-> finders, base |-> 0,
                           written |-> written])
          /\ fpc' = IF HasBadPosition(written) THEN "panicked" ELSE "next_record"
    /\ UNCHANGED <<opts, records, i, finders, alphabet, ivars>>
    /\ UNCHANGED cvars

\* line 127: the reader has no more records
FinishFinder ==
    /\ fpc = "next_record"
    /\ fasta # None => ~ more_records
    /\ fpc' = "done"
    /\ UNCHANGED <<opts, records, i, finders, bed, alphabet, step, ivars>>
    /\ UNCHANGED cvars

NextFinder == StartContig \/ BaseStep \/ EndOfContig \/ FinishFinder

SpecFinder == InitFinder /\ [][NextFinder]_vars

\* ------------------------------------------------------------------------
\* is_repeat called on its own
\* ------------------------------------------------------------------------
\* the default options with a range of unit lengths
OptsDefault(lo, hi) ==
    [min_bases |-> 10, max_bases |-> 100, min_repeats |-> 3,
     min_repeat_length |-> lo, max_repeat_length |-> hi]

MaxUnitLen == 8        \* length of the longest byte string is_repeat is called on

\* the non-empty strings over 'A', 'C' and 'G' of up to MaxUnitLen bytes
Units == UNION { [1..n -> {65, 67, 71}] : n \in 1..MaxUnitLen }

InitIsRepeat ==
    /\ probe \in Units
    /\ answer = None
    /\ opts = OptsDefault(1, 5)
    /\ records = <<>>
    /\ fpc = "done"
    /\ i = 0
    /\ finders = <<>>
    /\ bed = <<>>
    /\ alphabet = {}
    /\ step = None
    /\ fasta = None
    /\ IdleCounter

\* the call returns
CallIsRepeat ==
    /\ probe # <<>>
    /\ answer = None
    /\ answer' = Some(is_repeat(probe))
    /\ UNCHANGED <<opts, records, fpc, i, finders, bed, alphabet, step, fasta, probe>>
    /\ UNCHANGED cvars

SpecIsRepeat == InitIsRepeat /\ [][CallIsRepeat]_vars

\* ------------------------------------------------------------------------
\* The finder on given FASTA files
\* ------------------------------------------------------------------------
\* str::repeat
RECURSIVE repeat_str(_, _)
repeat_str(str, n) == IF n = 0 THEN <<>> ELSE str \o repeat_str(str, n - 1)

\* the options of test_repeat_finder
OptsTest ==
    [min_bases |-> 10, max_bases |-> 20, min_repeats |-> 3,
     min_repeat_length |-> 2, max_repeat_length |-> 5]

\* "CG" is <<67, 71>>, "ACG" <<65, 67, 71>>, "TGGAT" <<84, 71, 71, 65, 84>>
ContigS1 == repeat_str(<<67, 71>>, 5)
ContigS2 == repeat_str(<<67, 71>>, 10)
ContigS3 == repeat_str(<<65, 67, 71>>, 4)
ContigS4 == repeat_str(<<67, 71>>, 5) \o <<67>>
ContigS5 ==
    repeat_str(<<67, 71>>, 5) \o <<67>> \o repeat_str(<<67, 71>>, 10)
        \o <<84, 67, 71, 84, 84>> \o repeat_str(<<65, 67, 71>>, 3)
        \o repeat_str(<<84, 71, 71, 65, 84>>, 3) \o <<65, 71, 71>>

\* the runs on a given file: the options and the records of the file
GivenRuns ==
    { [opts |-> OptsTest, fasta |-> <<ContigS1>>],
      [opts |-> OptsTest, fasta |-> <<ContigS2>>],
      [opts |-> OptsDefault(1, 6), fasta |-> <<ContigS3>>],
      [opts |-> OptsDefault(2, 2), fasta |-> <<ContigS4>>],
      [opts |-> OptsTest, fasta |-> <<ContigS5>>] }

InitGiven ==
    /\ \E given \in GivenRuns : opts = given.opts /\ fasta = Some(given.fasta)
    /\ records = <<>>
    /\ fpc = "next_record"
    /\ i = 0
    /\ finders = [k \in opts.min_repeat_length..opts.max_repeat_length |-> KmerFinder_new(k)]
    /\ bed = <<>>
    /\ alphabet = {65, 67, 71, 84}
    /\ step = None
    /\ probe = <<>>
    /\ answer = None
    /\ IdleCounter

SpecGiven == InitGiven /\ [][NextFinder]_vars

\* ------------------------------------------------------------------------
\* The finder on every FASTA file of one short contig
\* ------------------------------------------------------------------------
MaxContigLen == 6      \* number of bases of the longest contig

\* the contigs of up to MaxContigLen bases over the given bytes
ContigsOver(bases) == UNION { [1..n -> bases] : n \in 1..MaxContigLen }

\* the options drawn: spans of up to 6 bases, one or two copies
OptsContigs ==
    { [min_bases |-> mb, max_bases |-> xb, min_repeats |-> mr,
       min_repeat_length |-> r[1], max_repeat_length |-> r[2]] :
        mb \in {2, 4}, xb \in {4, 6}, mr \in MinRepeatsValues, r \in RepeatLengthRanges }

InitContigs ==
    /\ opts \in OptsContigs
    /\ alphabet \in Alphabets
    /\ fasta \in {Some(<<contig>>) : contig \in ContigsOver(alphabet)}
    /\ records = <<>>
    /\ fpc = "next_record"
    /\ i = 0
    /\ finders = [k \in opts.min_repeat_length..opts.max_repeat_length |-> KmerFinder_new(k)]
    /\ bed = <<>>
    /\ step = None
    /\ probe = <<>>
    /\ answer = None
    /\ IdleCounter

SpecContigs == InitContigs /\ [][NextFinder]_vars

\* ------------------------------------------------------------------------
\* One KmerFinder called on its own, as the unit tests call it
\* ------------------------------------------------------------------------
MaxKmerLen == 3        \* length of the longest finder
MaxCalls == 6          \* number of bases added to the finder since its last reset

\* the finder under test and its length
the_finder == finders[opts.min_repeat_length]
the_len == opts.min_repeat_length

\* the bases added since the last reset
fed == records[1]

InitKmerFinder ==
    /\ opts \in {OptsDefault(k, k) : k \in 1..MaxKmerLen}
    /\ records = <<<<>>>>
    /\ fpc = "calls"
    /\ i = 0
    /\ finders = [k \in opts.min_repeat_length..opts.max_repeat_length |-> KmerFinder_new(k)]
    /\ bed = <<>>
    /\ alphabet = {65, 67, 71, 84}
    /\ step = None
    /\ fasta = None
    /\ probe = <<>>
    /\ answer = None
    /\ IdleCounter

\* finder.add_maybe_emit(base, do_emit); add(base) is the call with do_emit true
CallAdd ==
    /\ fpc = "calls"
    /\ Len(fed) < MaxCalls
    /\ \E base \in alphabet, do_emit \in BOOLEAN :
        LET r == add_maybe_emit(the_finder, base, do_emit)
        IN /\ finders' = [finders EXCEPT ![the_len] = r.finder]
           /\ records' = <<Append(fed, base)>>
           /\ step' = Some([kind |-> "add", before |-> the_finder, base |-> base,
                            do_emit |-> do_emit, retval |-> r.retval])
    /\ UNCHANGED <<opts, fpc, i, bed, alphabet, ivars>>
    /\ UNCHANGED cvars

\* finder.emit(): &self, the finder is not changed
CallEmit ==
    /\ fpc = "calls"
    /\ step' = Some([kind |-> "emit", before |-> the_finder, base |-> 0,
                     do_emit |-> TRUE, retval |-> emit(the_finder)])
    /\ UNCHANGED <<opts, records, fpc, i, finders, bed, alphabet, ivars>>
    /\ UNCHANGED cvars

\* finder.reset()
CallReset ==
    /\ fpc = "calls"
    /\ fed # <<>>
    /\ finders' = [finders EXCEPT ![the_len] = KmerFinder_reset(the_finder)]
    /\ records' = <<<<>>>>
    /\ step' = Some([kind |-> "reset", before |-> the_finder, base |-> 0,
                     do_emit |-> TRUE, retval |-> None])
    /\ UNCHANGED <<opts, fpc, i, bed, alphabet, ivars>>
    /\ UNCHANGED cvars

NextKmerFinder == CallAdd \/ CallEmit \/ CallReset

SpecKmerFinder == InitKmerFinder /\ [][NextKmerFinder]_vars

\* ------------------------------------------------------------------------
\* The repeat counter: inputs
\* ------------------------------------------------------------------------
MaxLoci == 2           \* largest number of BED records with distinct loci
MaxBacklog == 5        \* largest number of BED records that repeat one locus

\* the values drawn for --threads
ThreadCounts == 1..2

\* the FASTA index: contig name -> byte offset; chr2 comes first in the
\* reference, chrUn is not in it
contig_to_offset == ("chr2" :> 6) @@ ("chr1" :> 70)

Loci ==
    { [contig |-> "chr1", start |-> 2, end |-> 3, name |-> "(A)2"],
      [contig |-> "chr1", start |-> 1, end |-> 4, name |-> "(AC)2"],
      [contig |-> "chr2", start |-> 2, end |-> 3, name |-> "(C)2"],
      [contig |-> "chrUn", start |-> 2, end |-> 3, name |-> "(A)2"] }

\* a read: span is the reference length of its CIGAR (0: no CIGAR); qc tells
\* whether the read meets the quality thresholds
ReadA == [contig |-> "chr1", start |-> 1, span |-> 4, unmapped |-> FALSE, qc |-> TRUE]
ReadB == [contig |-> "chr1", start |-> 2, span |-> 2, unmapped |-> FALSE, qc |-> FALSE]
ReadC == [contig |-> "chr2", start |-> 2, span |-> 2, unmapped |-> FALSE, qc |-> TRUE]

\* the pairs of BAM files drawn (TRUE: --normal, FALSE: --tumor), each file
\* sorted by coordinate
BamPairs ==
    { (TRUE :> <<>>) @@ (FALSE :> <<>>),
      (TRUE :> <<ReadA, ReadB>>) @@ (FALSE :> <<ReadC>>),
      (TRUE :> <<ReadB>>) @@ (FALSE :> <<ReadA>>) }

\* a read flagged unmapped that carries the coordinates of ReadA, and a read
\* without CIGAR
ReadU == [contig |-> "chr1", start |-> 1, span |-> 4, unmapped |-> TRUE, qc |-> TRUE]
ReadN == [contig |-> "chr1", start |-> 3, span |-> 0, unmapped |-> FALSE, qc |-> TRUE]

\* BAM files with reads of every kind that query_reads tells apart
SpanningPairs ==
    { (TRUE :> <<ReadA, ReadU, ReadB, ReadN>>) @@ (FALSE :> <<ReadU, ReadB>>) }

alignment_end(read) == read.start + read.span - 1

\* reader.query: the records of the file that overlap the region
query(file, locus) ==
    SelectSeq(file, LAMBDA r : /\ r.contig = locus.contig
                               /\ r.start <= locus.end
                               /\ locus.start <= alignment_end(r))

is_spanning_any_flags(read, locus) ==
    /\ read.span > 0
    /\ read.start <= locus.start
    /\ locus.end <= alignment_end(read)

\* the condition of lines 106-109
is_spanning(read, locus) ==
    /\ ~ read.unmapped
    /\ read.span > 0
    /\ read.start <= locus.start
    /\ locus.end <= alignment_end(read)

\* query_reads: the WorkerJobs sent for one BamQueryJob, in order
query_reads(file, is_normal, locus) ==
    LET spanning == SelectSeq(query(file, locus), LAMBDA r : is_spanning(r, locus))
    IN [x \in 1..Len(spanning) |->
           [locus |-> locus, record |-> spanning[x], is_normal |-> is_normal]]

\* bed::Record's to_string: the fields joined by tabs, the start 0-based
locus_to_string(locus) == <<locus.contig, locus.start - 1, locus.end, locus.name>>

\* channel capacities (lines 167-174)
QueryQueueFactor == 8
WorkerQueueFactor == 1048576
CounterQueueFactor == 1048576

\* the channel takes every job it is sent
bam_query_unbounded == 2 * MaxBacklog + 1

bam_query_capacity == threads * QueryQueueFactor
worker_capacity == threads * WorkerQueueFactor
counter_capacity == threads * CounterQueueFactor

\* ------------------------------------------------------------------------
\* The repeat counter: channels
\* ------------------------------------------------------------------------
\* the driver's receivers live until run returns or unwinds
DriverHoldsReceivers == dpc \in {"enqueue", "join_query", "join_worker", "join_counter"}

Live(pool) == {w \in DOMAIN pool : pool[w].pc \notin {"done", "panicked"}}

B2N(b) == IF b THEN 1 ELSE 0

bam_query_senders == B2N("bam_query_job_tx" \in held)
bam_query_receivers == B2N(DriverHoldsReceivers) + Cardinality(Live(query_threads))
worker_senders == B2N("worker_job_tx" \in held) + Cardinality(Live(query_threads))
worker_receivers == B2N(DriverHoldsReceivers) + Cardinality(Live(worker_threads))
counter_senders == B2N("counter_job_tx" \in held) + Cardinality(Live(worker_threads))
counter_receivers == B2N(apc \in {"recv", "print"})

\* the process is running: its threads can take steps
Running == dpc \notin {"done", "exited_101", "exited_1"}

\* ------------------------------------------------------------------------
\* The repeat counter: the driver (lines 310-383)
\* ------------------------------------------------------------------------
InitCounterState ==
    /\ dpc = "enqueue"
    /\ idx = 1
    /\ half = "normal"
    /\ joined = 0
    /\ held = {"bam_query_job_tx", "worker_job_tx", "counter_job_tx"}
    /\ bam_query_q = <<>>
    /\ worker_q = <<>>
    /\ counter_q = <<>>
    /\ query_threads = [w \in 1..threads |-> [pc |-> "recv", pending |-> <<>>]]
    /\ worker_threads = [w \in 1..threads |-> [pc |-> "recv", job |-> <<>>]]
    /\ apc = "recv"
    /\ key_to_locus = <<>>
    /\ counter = <<>>
    /\ to_print = <<>>
    /\ output = <<>>
    /\ sent = <<>>
    /\ flow = NoFlow

\* BED files of distinct loci
Catalogs ==
    UNION { {c \in [1..n -> Loci] : \A x, y \in 1..n : x # y => c[x] # c[y]} : n \in 0..MaxLoci }

\* BED files that repeat one locus
Backlogs ==
    { [x \in 1..n |-> [contig |-> "chr1", start |-> 2, end |-> 3, name |-> "(A)2"]] :
        n \in (MaxLoci + 1)..MaxBacklog }

\* the repeat finder is not running
IdleFinder ==
    /\ opts = [min_bases |-> 10, max_bases |-> 100, min_repeats |-> 3,
               min_repeat_length |-> 1, max_repeat_length |-> 5]
    /\ records = <<>>
    /\ fpc = "done"
    /\ i = 0
    /\ finders = <<>>
    /\ bed = <<>>
    /\ alphabet = {}
    /\ step = None
    /\ fasta = None
    /\ probe = <<>>
    /\ answer = None

InitCounter ==
    /\ IdleFinder
    /\ threads \in ThreadCounts
    /\ \/ catalog \in Catalogs /\ bam \in BamPairs
       \/ catalog \in Backlogs /\ bam = [n \in BOOLEAN |-> <<>>]
    /\ run_no = 1
    /\ first_output = <<>>
    /\ InitCounterState

\* a run on BAM files with unmapped reads and reads without CIGAR
InitSpanning ==
    /\ IdleFinder
    /\ threads \in ThreadCounts
    /\ catalog \in Catalogs
    /\ bam \in SpanningPairs
    /\ run_no = 1
    /\ first_output = <<>>
    /\ InitCounterState

\* scenario S6: the locus chr1:100-115 (A)16 and two BAM files of 30 spanning
\* reads each; observed is the repeat count a read shows at the locus
LocusS6 == [contig |-> "chr1", start |-> 100, end |-> 115, name |-> "(A)16"]

ReadS6(observed) ==
    [contig |-> "chr1", start |-> 90, span |-> 40, unmapped |-> FALSE, qc |-> TRUE,
     observed |-> observed]

BamS6 ==
    (TRUE :> [x \in 1..30 |-> ReadS6(IF x <= 20 THEN 16 ELSE 15)])
        @@ (FALSE :> [x \in 1..30 |-> ReadS6(IF x <= 5 THEN 16 ELSE 14)])

\* the scenario on one thread; the second BED file adds a record whose contig
\* is not in the FASTA index
InitS6 ==
    /\ IdleFinder
    /\ threads = 1
    /\ catalog \in { <<LocusS6>>,
                      <<LocusS6, [contig |-> "chrUn", start |-> 2, end |-> 3, name |-> "(A)2"]>> }
    /\ bam = BamS6
    /\ run_no = 1
    /\ first_output = <<>>
    /\ InitCounterState

\* what no thread of a run changes
dvars == <<fvars, threads, catalog, bam, run_no, first_output>>

\* the driver panics: unwinding drops the locals of run
DriverPanics ==
    /\ dpc' = "panicked"
    /\ held' = {}

\* lines 326-330: the assert on the next BED record fails
DriverContigMismatch ==
    /\ dpc = "enqueue" /\ half = "normal" /\ idx <= Len(catalog)
    /\ catalog[idx].contig \notin DOMAIN contig_to_offset
    /\ DriverPanics
    /\ UNCHANGED <<dvars, flow, idx, half, joined, bam_query_q, worker_q, counter_q,
                   query_threads, worker_threads, apc, key_to_locus, counter,
                   to_print, output, sent>>

\* a send on bam_query_job_tx: blocks while the channel is full, fails when
\* no receiver is left (the ? returns the error from run)
DriverSend(is_normal) ==
    /\ bam_query_receivers = 0 \/ Len(bam_query_q) < bam_query_capacity
    /\ IF bam_query_receivers = 0
       THEN /\ dpc' = "errored"
            /\ held' = {}
            /\ UNCHANGED <<bam_query_q, sent, idx, half>>
       ELSE /\ bam_query_q' = Append(bam_query_q,
                                     [locus |-> catalog[idx], is_normal |-> is_normal])
            /\ sent' = Append(sent, [ordinal |-> idx, is_normal |-> is_normal])
            /\ half' = IF is_normal THEN "tumor" ELSE "normal"
            /\ idx' = IF is_normal THEN idx ELSE idx + 1
            /\ UNCHANGED <<dpc, held>>
    /\ UNCHANGED <<dvars, flow, joined, worker_q, counter_q, query_threads, worker_threads,
                   apc, key_to_locus, counter, to_print, output>>

\* lines 321-357
DriverSendNormal ==
    /\ dpc = "enqueue" /\ half = "normal" /\ idx <= Len(catalog)
    /\ catalog[idx].contig \in DOMAIN contig_to_offset
    /\ DriverSend(TRUE)

\* line 358
DriverSendTumor ==
    /\ dpc = "enqueue" /\ half = "tumor"
    /\ DriverSend(FALSE)

AfterClose_keep == held

\* line 360: drop(bam_query_job_tx)
AfterClose == held \ {"bam_query_job_tx"}

DriverClose ==
    /\ dpc = "enqueue" /\ half = "normal" /\ idx > Len(catalog)
    /\ held' = AfterClose
    /\ dpc' = "join_query"
    /\ joined' = 0
    /\ UNCHANGED <<dvars, flow, idx, half, bam_query_q, worker_q, counter_q, query_threads,
                   worker_threads, apc, key_to_locus, counter, to_print, output, sent>>

\* one handle.join() of a try_for_each, and the drop that follows the last
DriverJoin(phase, pool, tx, next_phase) ==
    /\ dpc = phase
    /\ joined < threads
    /\ pool[joined + 1].pc \in {"done", "panicked"}
    /\ IF pool[joined + 1].pc = "panicked"
       THEN DriverPanics /\ UNCHANGED joined
       ELSE IF joined + 1 < threads
       THEN joined' = joined + 1 /\ UNCHANGED <<dpc, held>>
       ELSE /\ joined' = 0
            /\ dpc' = next_phase
            /\ held' = held \ {tx}
    /\ UNCHANGED <<dvars, flow, idx, half, bam_query_q, worker_q, counter_q, query_threads,
                   worker_threads, apc, key_to_locus, counter, to_print, output, sent>>

\* lines 363-367
DriverJoinQuery == DriverJoin("join_query", query_threads, "worker_job_tx", "join_worker")

\* lines 370-374
DriverJoinWorker == DriverJoin("join_worker", worker_threads, "counter_job_tx", "join_counter")

\* lines 377-382
DriverJoinCounter ==
    /\ dpc = "join_counter"
    /\ apc \in {"done", "panicked"}
    /\ IF apc = "panicked" THEN DriverPanics ELSE dpc' = "done" /\ held' = {}
    /\ UNCHANGED <<dvars, flow, idx, half, joined, bam_query_q, worker_q, counter_q,
                   query_threads, worker_threads, apc, key_to_locus, counter,
                   to_print, output, sent>>

\* the main thread has unwound: the process exits and its threads with it
ProcessExit ==
    /\ dpc \in {"panicked", "errored"}
    /\ dpc' = IF dpc = "panicked" THEN "exited_101" ELSE "exited_1"
    /\ UNCHANGED <<dvars, flow, idx, half, joined, held, bam_query_q, worker_q, counter_q,
                   query_threads, worker_threads, apc, key_to_locus, counter,
                   to_print, output, sent>>

\* ------------------------------------------------------------------------
\* The repeat counter: the BAM query threads (lines 270-308)
\* ------------------------------------------------------------------------
tvars == <<dvars, dpc, idx, half, joined, held, sent>>

\* rx.recv() returns a job
QueryRecv(w) ==
    /\ Running
    /\ query_threads[w].pc = "recv"
    /\ bam_query_q # <<>>
    /\ LET job == Head(bam_query_q)
           jobs == query_reads(bam[job.is_normal], job.is_normal, job.locus)
       IN query_threads' = [query_threads EXCEPT
              ![w] = [pc |-> IF jobs = <<>> THEN "recv" ELSE "busy", pending |-> jobs]]
    /\ bam_query_q' = Tail(bam_query_q)
    /\ flow' = [flow EXCEPT !.queried = bag_add(@, Head(bam_query_q))]
    /\ UNCHANGED <<tvars, worker_q, counter_q, worker_threads, apc, key_to_locus,
                   counter, to_print, output>>

\* rx.recv() returns a job and the BAM cannot be opened or queried (the
\* unwraps of lines 98-101 and 283-291), or a later record of the query
\* cannot be parsed (lines 103-105, 108-109)
QueryFail(w) ==
    /\ Running
    /\ \/ /\ query_threads[w].pc = "recv"
          /\ bam_query_q # <<>>
          /\ bam_query_q' = Tail(bam_query_q)
          /\ flow' = [flow EXCEPT !.queried = bag_add(@, Head(bam_query_q))]
       \/ /\ query_threads[w].pc = "busy"
          /\ UNCHANGED <<bam_query_q, flow>>
    /\ query_threads' = [query_threads EXCEPT ![w] = [pc |-> "panicked", pending |-> <<>>]]
    /\ UNCHANGED <<tvars, worker_q, counter_q, worker_threads, apc, key_to_locus,
                   counter, to_print, output>>

\* lines 111-112: the send of one WorkerJob
QuerySend(w) ==
    /\ Running
    /\ query_threads[w].pc = "busy"
    /\ worker_receivers = 0 \/ Len(worker_q) < worker_capacity
    /\ IF worker_receivers = 0
       THEN /\ query_threads' = [query_threads EXCEPT
                                   ![w] = [pc |-> "panicked", pending |-> <<>>]]
            /\ UNCHANGED <<worker_q, flow>>
       ELSE /\ worker_q' = Append(worker_q, Head(query_threads[w].pending))
            /\ flow' = [flow EXCEPT !.enqueued =
                            bag_add(@, job_of(Head(query_threads[w].pending).locus,
                                              Head(query_threads[w].pending).is_normal))]
            /\ query_threads' = [query_threads EXCEPT
                  ![w] = [pc |-> IF Len(@.pending) = 1 THEN "recv" ELSE "busy",
                          pending |-> Tail(@.pending)]]
    /\ UNCHANGED <<tvars, bam_query_q, counter_q, worker_threads, apc, key_to_locus,
                   counter, to_print, output>>

\* rx.recv() returns Err: the channel is empty and has no sender (lines 303-304)
QueryExit(w) ==
    /\ Running
    /\ query_threads[w].pc = "recv"
    /\ bam_query_q = <<>>
    /\ bam_query_senders = 0
    /\ query_threads' = [query_threads EXCEPT ![w] = [pc |-> "done", pending |-> <<>>]]
    /\ UNCHANGED <<tvars, flow, bam_query_q, worker_q, counter_q, worker_threads, apc,
                   key_to_locus, counter, to_print, output>>

\* ------------------------------------------------------------------------
\* The repeat counter: the worker threads (lines 250-268)
\* ------------------------------------------------------------------------
\* line 258: the count of every job is 0
count_of(worker_job) == 0

\* lines 255-260
WorkerRecv(w) ==
    /\ Running
    /\ worker_threads[w].pc = "recv"
    /\ worker_q # <<>>
    /\ LET worker_job == Head(worker_q)
       IN worker_threads' = [worker_threads EXCEPT
              ![w] = [pc |-> "send",
                      job |-> <<[locus |-> worker_job.locus,
                                 count |-> count_of(worker_job),
                                 is_normal |-> worker_job.is_normal]>>]]
    /\ worker_q' = Tail(worker_q)
    /\ flow' = [flow EXCEPT !.worked =
                    bag_add(@, job_of(Head(worker_q).locus, Head(worker_q).is_normal))]
    /\ UNCHANGED <<tvars, bam_query_q, counter_q, query_threads, apc, key_to_locus,
                   counter, to_print, output>>

\* line 261
WorkerSend(w) ==
    /\ Running
    /\ worker_threads[w].pc = "send"
    /\ counter_receivers = 0 \/ Len(counter_q) < counter_capacity
    /\ IF counter_receivers = 0
       THEN /\ worker_threads' = [worker_threads EXCEPT
                                    ![w] = [pc |-> "panicked", job |-> <<>>]]
            /\ UNCHANGED counter_q
       ELSE /\ counter_q' = Append(counter_q, worker_threads[w].job[1])
            /\ worker_threads' = [worker_threads EXCEPT
                                    ![w] = [pc |-> "recv", job |-> <<>>]]
    /\ UNCHANGED <<tvars, flow, bam_query_q, worker_q, query_threads, apc, key_to_locus,
                   counter, to_print, output>>

\* the thread leaves its loop as soon as the channel has no sender
WorkerExit_early(w) ==
    /\ Running
    /\ worker_threads[w].pc = "recv"
    /\ worker_senders = 0
    /\ worker_threads' = [worker_threads EXCEPT ![w] = [pc |-> "done", job |-> <<>>]]
    /\ UNCHANGED <<tvars, flow, bam_query_q, worker_q, counter_q, query_threads, apc,
                   key_to_locus, counter, to_print, output>>

\* lines 263-264
WorkerExit(w) ==
    /\ Running
    /\ worker_threads[w].pc = "recv"
    /\ worker_q = <<>>
    /\ worker_senders = 0
    /\ worker_threads' = [worker_threads EXCEPT ![w] = [pc |-> "done", job |-> <<>>]]
    /\ UNCHANGED <<tvars, flow, bam_query_q, worker_q, counter_q, query_threads, apc,
                   key_to_locus, counter, to_print, output>>

\* ------------------------------------------------------------------------
\* The repeat counter: the counter thread (lines 177-248)
\* ------------------------------------------------------------------------
Lookup(map, key, default) == IF key \in DOMAIN map THEN map[key] ELSE default

\* the tallies of the other sample are lost when a job is added
counter_add_overwrite(map, job) ==
    LET key == locus_to_string(job.locus)
        repeat == Lookup(map, key, <<>>)
        repeat_count == Lookup(repeat, job.count, <<>>)
        n == Lookup(repeat_count, job.is_normal, 0)
    IN (key :> ((job.count :> (job.is_normal :> (n + 1))) @@ repeat)) @@ map

\* lines 183-193: one CounterJob is added to the maps
counter_add(map, job) ==
    LET key == locus_to_string(job.locus)
        repeat == Lookup(map, key, <<>>)
        repeat_count == Lookup(repeat, job.count, <<>>)
        n == Lookup(repeat_count, job.is_normal, 0)
    IN (key :> ((job.count :> ((job.is_normal :> (n + 1)) @@ repeat_count)) @@ repeat)) @@ map

CounterRecv ==
    /\ Running
    /\ apc = "recv"
    /\ counter_q # <<>>
    /\ LET count_job == Head(counter_q)
           locus_key == locus_to_string(count_job.locus)
       IN /\ key_to_locus' = IF locus_key \in DOMAIN key_to_locus THEN key_to_locus
                             ELSE (locus_key :> count_job.locus) @@ key_to_locus
          /\ counter' = counter_add(counter, count_job)
    /\ counter_q' = Tail(counter_q)
    /\ flow' = [flow EXCEPT !.counted =
                    bag_add(@, job_of(Head(counter_q).locus, Head(counter_q).is_normal))]
    /\ UNCHANGED <<tvars, bam_query_q, worker_q, query_threads, worker_threads, apc,
                   to_print, output>>

\* the orders in which a HashMap may iterate over its keys
KeyOrders(keys) ==
    {o \in [1..Cardinality(keys) -> keys] : \A x, y \in DOMAIN o : x # y => o[x] # o[y]}

\* lines 209-218: the sort key of a locus
sort_key(locus) == <<contig_to_offset[locus.contig], locus.start, locus.end>>

TupleLeq(a, b) ==
    \/ a[1] < b[1]
    \/ a[1] = b[1] /\ a[2] < b[2]
    \/ a[1] = b[1] /\ a[2] = b[2] /\ a[3] <= b[3]

\* x placed behind the elements of the sorted sequence that are not greater
InsertSorted(sorted, x) ==
    LET before == SelectSeq(sorted, LAMBDA y : TupleLeq(sort_key(y), sort_key(x)))
        after == SelectSeq(sorted, LAMBDA y : ~ TupleLeq(sort_key(y), sort_key(x)))
    IN before \o <<x>> \o after

\* a stable sort, as sort_by_cached_key is
RECURSIVE sort_by_cached_key(_)
sort_by_cached_key(loci) ==
    IF loci = <<>> THEN <<>>
    ELSE InsertSorted(sort_by_cached_key(SubSeq(loci, 1, Len(loci) - 1)), loci[Len(loci)])

\* lines 227-228: the keys of a map, ascending
RECURSIVE sorted_keys(_)
sorted_keys(keys) ==
    IF keys = {} THEN <<>>
    ELSE LET least == CHOOSE x \in keys : \A y \in keys : x <= y
         IN <<least>> \o sorted_keys(keys \ {least})

lines_of_one_column(locus, repeat) ==
    LET lengths == sorted_keys(DOMAIN repeat)
    IN [x \in 1..Len(lengths) |->
           [contig |-> locus.contig, start |-> locus.start, end |-> locus.end,
            length |-> lengths[x],
            normal_count |-> Lookup(repeat[lengths[x]], TRUE, 0),
            tumor_count |-> Lookup(repeat[lengths[x]], TRUE, 0)]]

\* lines 230-246: the lines of one locus
lines_of(locus, repeat) ==
    LET lengths == sorted_keys(DOMAIN repeat)
    IN [x \in 1..Len(lengths) |->
           [contig |-> locus.contig, start |-> locus.start, end |-> locus.end,
            length |-> lengths[x],
            normal_count |-> Lookup(repeat[lengths[x]], TRUE, 0),
            tumor_count |-> Lookup(repeat[lengths[x]], FALSE, 0)]]

RECURSIVE all_lines(_, _)
all_lines(loci, map) ==
    IF loci = <<>> THEN <<>>
    ELSE lines_of(Head(loci), map[locus_to_string(Head(loci))]) \o all_lines(Tail(loci), map)

unsorted(loci) == loci

\* lines 196-218: the loci in output order, from the order the map yields
ordered_loci(loci) == sort_by_cached_key(loci)

\* the counter thread leaves its loop as soon as the channel is empty
CounterCollect_early ==
    /\ Running
    /\ apc = "recv"
    /\ counter_q = <<>>
    /\ \E order \in KeyOrders(DOMAIN counter) :
          LET loci == [x \in DOMAIN order |-> key_to_locus[order[x]]]
          IN IF \E x \in DOMAIN loci : loci[x].contig \notin DOMAIN contig_to_offset
             THEN apc' = "panicked" /\ UNCHANGED to_print
             ELSE /\ to_print' = all_lines(ordered_loci(loci), counter)
                  /\ apc' = IF to_print' = <<>> THEN "done" ELSE "print"
    /\ UNCHANGED <<tvars, flow, bam_query_q, worker_q, counter_q, query_threads,
                   worker_threads, key_to_locus, counter, output>>

\* recv returns Err: the channel is empty and has no sender; the loci are
\* collected and sorted (lines 196-218)
CounterCollect ==
    /\ Running
    /\ apc = "recv"
    /\ counter_q = <<>>
    /\ counter_senders = 0
    /\ \E order \in KeyOrders(DOMAIN counter) :
          LET loci == [x \in DOMAIN order |-> key_to_locus[order[x]]]
          IN IF \E x \in DOMAIN loci : loci[x].contig \notin DOMAIN contig_to_offset
             THEN apc' = "panicked" /\ UNCHANGED to_print
             ELSE /\ to_print' = all_lines(ordered_loci(loci), counter)
                  /\ apc' = IF to_print' = <<>> THEN "done" ELSE "print"
    /\ UNCHANGED <<tvars, flow, bam_query_q, worker_q, counter_q, query_threads,
                   worker_threads, key_to_locus, counter, output>>

\* lines 237-245: one println!
CounterPrint ==
    /\ Running
    /\ apc = "print"
    /\ output' = Append(output, Head(to_print))
    /\ to_print' = Tail(to_print)
    /\ apc' = IF Len(to_print) = 1 THEN "done" ELSE "print"
    /\ UNCHANGED <<tvars, flow, bam_query_q, worker_q, counter_q, query_threads,
                   worker_threads, key_to_locus, counter>>

\* ------------------------------------------------------------------------
\* The repeat counter as a state machine
\* ------------------------------------------------------------------------
NextCounter ==
    \/ DriverContigMismatch
    \/ DriverSendNormal
    \/ DriverSendTumor
    \/ DriverClose
    \/ DriverJoinQuery
    \/ DriverJoinWorker
    \/ DriverJoinCounter
    \/ ProcessExit
    \/ \E w \in DOMAIN query_threads : QueryRecv(w)
    \/ \E w \in DOMAIN query_threads : QueryFail(w)
    \/ \E w \in DOMAIN query_threads : QuerySend(w)
    \/ \E w \in DOMAIN query_threads : QueryExit(w)
    \/ \E w \in DOMAIN worker_threads : WorkerRecv(w)
    \/ \E w \in DOMAIN worker_threads : WorkerSend(w)
    \/ \E w \in DOMAIN worker_threads : WorkerExit(w)
    \/ CounterRecv
    \/ CounterCollect
    \/ CounterPrint

SpecCounter == InitCounter /\ [][NextCounter]_vars

\* the steps of threads that the scheduler runs whenever they can be taken;
\* the failure of a BAM query is an event of the environment
Scheduled ==
    \/ DriverContigMismatch
    \/ DriverSendNormal
    \/ DriverSendTumor
    \/ DriverClose
    \/ DriverJoinQuery
    \/ DriverJoinWorker
    \/ DriverJoinCounter
    \/ ProcessExit
    \/ \E w \in DOMAIN query_threads : QueryRecv(w) \/ QuerySend(w) \/ QueryExit(w)
    \/ \E w \in DOMAIN worker_threads : WorkerRecv(w) \/ WorkerSend(w) \/ WorkerExit(w)
    \/ CounterRecv
    \/ CounterCollect
    \/ CounterPrint

\* every thread that is not blocked takes its next step
FairCounter == SpecCounter /\ WF_vars(Scheduled)

SpecSpanning == InitSpanning /\ [][NextCounter]_vars

SpecS6 == InitS6 /\ [][NextCounter]_vars

\* the run is over with exit code 0 and the program is run again on the
\* same BED file with the two BAM files exchanged
RunExchanged ==
    /\ run_no = 1
    /\ dpc = "done"
    /\ UNCHANGED <<fvars, threads, catalog>>
    /\ run_no' = 2
    /\ first_output' = output
    /\ bam' = [n \in BOOLEAN |-> bam[~n]]
    /\ dpc' = "enqueue"
    /\ idx' = 1
    /\ half' = "normal"
    /\ joined' = 0
    /\ held' = {"bam_query_job_tx", "worker_job_tx", "counter_job_tx"}
    /\ bam_query_q' = <<>>
    /\ worker_q' = <<>>
    /\ counter_q' = <<>>
    /\ query_threads' = [w \in 1..threads |-> [pc |-> "recv", pending |-> <<>>]]
    /\ worker_threads' = [w \in 1..threads |-> [pc |-> "recv", job |-> <<>>]]
    /\ apc' = "recv"
    /\ key_to_locus' = <<>>
    /\ counter' = <<>>
    /\ to_print' = <<>>
    /\ output' = <<>>
    /\ sent' = <<>>
    /\ flow' = NoFlow

SpecExchanged == InitCounter /\ [][NextCounter \/ RunExchanged]_vars

\* ------------------------------------------------------------------------
\* Properties of the finder
\* ------------------------------------------------------------------------
SpanOf(rec) == rec.end - rec.start + 1

\* u is the concatenation of Len(u) \div d copies of its first d bases
IsCopiesOf(u, d) == \A x \in 1..Len(u) : u[x] = u[((x - 1) % d) + 1]

IsPrimitive(u) == ~ \E d \in 1..(Len(u) - 1) : Len(u) % d = 0 /\ IsCopiesOf(u, d)

\* the repeat of finder k that ends at a step: the finder breaks on the
\* step's base, or the step is the end of the contig
Breaks(st, k) ==
    LET f == st.before[k]
    IN /\ f.span >= k
       /\ st.kind = "base" => f.kmer[f.index + 1] # st.base

\* the unit of the run of finder k that ends just before position p of
\* contig c, read from the contig itself
UnitInContig(c, p, k, span) == [x \in 1..k |-> ToUpper(records[c][p - span + x - 1])]

PassesFilters(st, k) ==
    LET span == st.before[k].span
    IN /\ Breaks(st, k)
       /\ opts.min_bases <= span
       /\ span <= opts.max_bases
       /\ span \div k >= opts.min_repeats
       /\ IsPrimitive(UnitInContig(st.contig, st.position, k, span))

Passing(st) == {k \in DOMAIN st.before : PassesFilters(st, k)}

Min(S) == CHOOSE x \in S : \A y \in S : x <= y

\* C1: the unit of every locus written by the finder is primitive: it is
\* not two or more copies of a shorter unit.
C1_Primitive == \A x \in 1..Len(bed) : IsPrimitive(bed[x].unit)

\* a locus with a unit of length >= 2 has been written, and in the last
\* step a finder of length >= 2 held a non-primitive unit of acceptable
\* span and count, for which nothing was written
C1_Witness ==
    /\ \E x \in 1..Len(bed) : Len(bed[x].unit) >= 2
    /\ step # None
    /\ step[1].written = <<>>
    /\ \E k \in DOMAIN step[1].before :
          /\ k >= 2
          /\ Breaks(step[1], k)
          /\ step[1].before[k].span >= opts.min_bases
          /\ step[1].before[k].span <= opts.max_bases
          /\ step[1].before[k].span \div k >= opts.min_repeats
          /\ ~ PassesFilters(step[1], k)

\* C2: every written locus has min_bases <= span <= max_bases and
\* span \div k >= min_repeats, the bounds being inclusive (a step in which
\* a repeat with a span exactly at a bound passes the filters writes a
\* locus); the span written is the whole span of the finder's repeat, never
\* a part of it.
C2_SpanBounds ==
    /\ \A x \in 1..Len(bed) :
          /\ opts.min_bases <= SpanOf(bed[x])
          /\ SpanOf(bed[x]) <= opts.max_bases
          /\ SpanOf(bed[x]) \div Len(bed[x].unit) >= opts.min_repeats
    /\ step # None =>
          /\ \A w \in 1..Len(step[1].written) :
                LET rec == step[1].written[w]
                IN /\ Len(rec.unit) \in DOMAIN step[1].before
                   /\ Breaks(step[1], Len(rec.unit))
                   /\ SpanOf(rec) = step[1].before[Len(rec.unit)].span
          /\ (\E k \in Passing(step[1]) :
                 step[1].before[k].span \in {opts.min_bases, opts.max_bases})
             => step[1].written # <<>>

\* loci at both bounds have been written, and the last step dropped a
\* repeat longer than max_bases
C2_Witness ==
    /\ opts.min_bases < opts.max_bases
    /\ \E x \in 1..Len(bed) : SpanOf(bed[x]) = opts.min_bases
    /\ \E x \in 1..Len(bed) : SpanOf(bed[x]) = opts.max_bases
    /\ step # None
    /\ step[1].written = <<>>
    /\ \E k \in DOMAIN step[1].before :
          Breaks(step[1], k) /\ step[1].before[k].span > opts.max_bases

\* C3: a base step and an end-of-contig step write at most one locus; when
\* one or more finders hold a repeat that ends at the step and passes the
\* filters, the locus written is that of the smallest such k.
C3_MinimalPeriod ==
    step # None =>
        LET st == step[1]
        IN /\ Len(st.written) <= 1
           /\ Passing(st) # {} =>
                /\ Len(st.written) = 1
                /\ Len(st.written[1].unit) = Min(Passing(st))
                /\ st.written[1].end = st.position - 1
                /\ SpanOf(st.written[1]) = st.before[Min(Passing(st))].span
           /\ Passing(st) = {} => st.written = <<>>

\* two finders passed the filters in one base step
C3_Witness ==
    /\ step # None
    /\ step[1].kind = "base"
    /\ Cardinality(Passing(step[1])) >= 2
    /\ Len(step[1].written) = 1

\* C4: for every written locus (contig, start, end, "(u)n"), with k = |u|
\* and span = end - start + 1: n = span \div k, and the upper-cased bases of
\* the contig at start..end are u repeated, cut at span bases.
C4_RoundTrip ==
    \A x \in 1..Len(bed) :
        LET rec == bed[x]
            k == Len(rec.unit)
        IN /\ rec.num = SpanOf(rec) \div k
           /\ rec.start >= 1
           /\ rec.end <= Len(records[rec.contig])
           /\ \A y \in 0..(SpanOf(rec) - 1) :
                 ToUpper(records[rec.contig][rec.start + y]) = rec.unit[(y % k) + 1]

\* a locus that starts inside the contig, ends with a partial unit and
\* covers a lower-case base
C4_Witness ==
    \E x \in 1..Len(bed) :
        /\ bed[x].start > 1
        /\ Len(bed[x].unit) >= 2
        /\ SpanOf(bed[x]) % Len(bed[x].unit) # 0
        /\ \E y \in bed[x].start..bed[x].end : records[bed[x].contig][y] = 97

\* C5: the written loci are ordered by (contig, start, end).
LocusLeq(a, b) ==
    \/ a.contig < b.contig
    \/ a.contig = b.contig /\ a.start < b.start
    \/ a.contig = b.contig /\ a.start = b.start /\ a.end <= b.end

C5_OrderedByStart ==
    \A x \in 1..Len(bed) : \A y \in 1..Len(bed) : x < y => LocusLeq(bed[x], bed[y])

\* ------------------------------------------------------------------------
\* Properties of the counter
\* ------------------------------------------------------------------------
\* the order of two output lines by (contig offset, start, end, repeat count)
LineLeq(a, b) ==
    LET oa == contig_to_offset[a.contig]
        ob == contig_to_offset[b.contig]
    IN \/ oa < ob
       \/ oa = ob /\ a.start < b.start
       \/ oa = ob /\ a.start = b.start /\ a.end < b.end
       \/ oa = ob /\ a.start = b.start /\ a.end = b.end /\ a.length <= b.length

\* C6: at every moment of every run the lines written so far are ordered by
\* (contig byte offset in the reference index, locus start, locus end, repeat
\* count), whatever the order in which the count jobs reached the counter
\* thread and whatever order its map yields its keys in.
C6_OutputOrdered ==
    \A x \in DOMAIN output : \A y \in DOMAIN output :
        x < y => LineLeq(output[x], output[y])

\* a run on two threads has ended after writing two loci that the BED file
\* lists against the order of the reference
C6_Witness ==
    /\ dpc = "done"
    /\ threads = 2
    /\ Len(catalog) = 2
    /\ contig_to_offset[catalog[1].contig] > contig_to_offset[catalog[2].contig]
    /\ Len(output) = 2
    /\ output[1].contig = catalog[2].contig
    /\ output[2].contig = catalog[1].contig

\* the reads of a file on the contig of a locus that span the locus and meet
\* the quality thresholds
spanning_qc_reads(file, locus) ==
    Len(SelectSeq(file, LAMBDA r : r.contig = locus.contig /\ is_spanning(r, locus) /\ r.qc))

RECURSIVE reads_reported(_, _)
reads_reported(lines, locus) ==
    IF lines = <<>> THEN 0
    ELSE (IF /\ Head(lines).contig = locus.contig
             /\ Head(lines).start = locus.start
             /\ Head(lines).end = locus.end
          THEN Head(lines).normal_count + Head(lines).tumor_count
          ELSE 0) + reads_reported(Tail(lines), locus)

\* C7: at the end of a run, for every locus, normal_reads + tumor_reads summed
\* over the lines of the locus is the number of reads of both samples that
\* span the locus and pass the quality-control filters.
C7_CountConservation ==
    dpc = "done" =>
        \A x \in DOMAIN catalog :
            reads_reported(output, catalog[x]) =
                spanning_qc_reads(bam[TRUE], catalog[x]) + spanning_qc_reads(bam[FALSE], catalog[x])

\* a line with its two read columns exchanged
exchanged(line) ==
    [line EXCEPT !.normal_count = line.tumor_count, !.tumor_count = line.normal_count]

\* C8: a second run on the same BED file with the normal and the tumor BAM
\* exchanged writes the lines of the first run in the same order, with the
\* normal_reads and tumor_reads columns exchanged on every line.
C8_Symmetry ==
    (run_no = 2 /\ dpc = "done") =>
        output = [x \in DOMAIN first_output |-> exchanged(first_output[x])]

\* both runs have ended, the two BAM files differ and some line has
\* different numbers in its two columns
C8_Witness ==
    /\ run_no = 2
    /\ dpc = "done"
    /\ bam[TRUE] # bam[FALSE]
    /\ Len(output) = 2
    /\ \E x \in DOMAIN output : output[x].normal_count # output[x].tumor_count
    /\ \E x \in DOMAIN output : output[x].tumor_count > 0

\* some thread of a pool, or the counter thread, has panicked
WorkerFailed ==
    \/ \E w \in DOMAIN query_threads : query_threads[w].pc = "panicked"
    \/ \E w \in DOMAIN worker_threads : worker_threads[w].pc = "panicked"
    \/ apc = "panicked"

\* the BED file names a contig that the FASTA index lacks (fatal by contract)
ContigMismatch == \E x \in DOMAIN catalog : catalog[x].contig \notin DOMAIN contig_to_offset

\* the jobs of a BED file: for every record the normal job, then the tumor job
two_jobs_per_locus ==
    [x \in 1..(2 * Len(catalog)) |->
        [ordinal |-> (x + 1) \div 2, is_normal |-> (x % 2 = 1)]]

\* run has returned Ok: the jobs were enqueued, the query queue was closed,
\* every thread has exited and every queue is drained
CleanEnd ==
    /\ dpc = "done"
    /\ sent = two_jobs_per_locus
    /\ "bam_query_job_tx" \notin held
    /\ \A w \in DOMAIN query_threads : query_threads[w].pc = "done"
    /\ \A w \in DOMAIN worker_threads : worker_threads[w].pc = "done"
    /\ apc = "done"
    /\ bam_query_q = <<>> /\ worker_q = <<>> /\ counter_q = <<>>

\* C9: when the BED contigs are in the reference and no worker fails, the run
\* terminates: the driver has enqueued exactly two query jobs per locus
\* (normal, then tumor) and closed the query queue, every query thread, every
\* worker thread and the counter thread have exited, and no thread is left
\* blocked on a send or a receive.
C9_Terminates == <>(WorkerFailed \/ ContigMismatch \/ CleanEnd)

\* a run on two threads over two loci with spanning reads has ended cleanly
C9_Witness ==
    /\ CleanEnd
    /\ ~ WorkerFailed
    /\ threads = 2
    /\ Len(catalog) = 2
    /\ Len(sent) = 4
    /\ Len(output) = 2

\* C10: once a worker has panicked, the process is on its way to the exit
\* with the panic: until it has exited, some thread can take a step.  (A
\* state with a failed worker in which no thread can step lasts forever.)
C10_FailureNeverStalls ==
    (WorkerFailed /\ dpc # "exited_101") => ENABLED Scheduled

\* C11: a run that ends in a hard error (a worker has panicked, or the driver
\* has found a BED contig that the FASTA index lacks) has written no output
\* line.
C11_NoPartialOutput ==
    dpc \in {"exited_101", "exited_1"} => output = <<>>

\* the positions in the result of a region query of the reads that are not
\* flagged unmapped, have a CIGAR, start at or before the locus and end at
\* or after it
spanning_positions(returned, locus) ==
    {x \in DOMAIN returned :
        /\ returned[x].unmapped = FALSE
        /\ returned[x].span # 0
        /\ returned[x].start <= locus.start
        /\ returned[x].start + returned[x].span - 1 >= locus.end}

\* jobs holds one read job per spanning read returned by the region query of
\* the sample of the query job, tagged with its locus and its sample
enqueues_spanning(query_job, jobs) ==
    LET returned == query(bam[query_job.is_normal], query_job.locus)
        P == spanning_positions(returned, query_job.locus)
    IN /\ Len(jobs) = Cardinality(P)
       /\ \A k \in DOMAIN jobs :
             /\ jobs[k].locus = query_job.locus
             /\ jobs[k].is_normal = query_job.is_normal
             /\ \E x \in P : returned[x] = jobs[k].record
       /\ \A x \in P :
             Cardinality({k \in DOMAIN jobs : jobs[k].record = returned[x]})
                 = Cardinality({y \in P : returned[y] = returned[x]})

\* C12: the read jobs a query thread sends for a query job are exactly the
\* reads that the region query of the job's sample returns for the locus and
\* that are spanning (mapped, with a CIGAR, start <= locus start, locus end <=
\* end), each once and tagged with the job's sample; every send puts the
\* next of them into the worker queue.
C12_SpanningFilter ==
    [][\A w \in DOMAIN query_threads :
          LET old == query_threads[w]
              new == query_threads'[w]
          IN /\ (old.pc = "recv" /\ new.pc = "busy")
                    => enqueues_spanning(Head(bam_query_q), new.pending)
             /\ (bam_query_q # <<>> /\ bam_query_q' = Tail(bam_query_q)
                    /\ query_threads' = query_threads)
                    => enqueues_spanning(Head(bam_query_q), <<>>)
             /\ (old.pc = "busy" /\ new.pc \in {"busy", "recv"} /\ new # old)
                    => /\ worker_q' = Append(worker_q, Head(old.pending))
                       /\ new.pending = Tail(old.pending)]_vars

\* the normal BAM has an unmapped read and a read without CIGAR over the
\* locus chr1:2-3, and the worker queue holds the two read jobs of its normal
\* query job
C12_Witness ==
    /\ bam[TRUE] = <<ReadA, ReadU, ReadB, ReadN>>
    /\ Len(worker_q) = 2
    /\ worker_q[1] = [locus |-> [contig |-> "chr1", start |-> 2, end |-> 3, name |-> "(A)2"],
                      record |-> ReadA, is_normal |-> TRUE]
    /\ worker_q[2] = [locus |-> [contig |-> "chr1", start |-> 2, end |-> 3, name |-> "(A)2"],
                      record |-> ReadB, is_normal |-> TRUE]

\* the reads of one sample tallied for a locus when the BED records are
\* handled one after the other: every record of the locus tallies every read
\* that spans it
tally(locus, is_normal) ==
    Cardinality({x \in DOMAIN catalog : catalog[x] = locus})
        * Cardinality({y \in DOMAIN bam[is_normal] :
                         LET r == bam[is_normal][y]
                         IN /\ r.contig = locus.contig
                            /\ ~ r.unmapped
                            /\ r.span > 0
                            /\ r.start <= locus.start
                            /\ locus.end <= r.start + r.span - 1})

RECURSIVE in_reference_order(_)
in_reference_order(loci) ==
    IF loci = {} THEN <<>>
    ELSE LET first == CHOOSE a \in loci : \A b \in loci :
                        \/ contig_to_offset[a.contig] < contig_to_offset[b.contig]
                        \/ /\ a.contig = b.contig
                           /\ \/ a.start < b.start
                              \/ a.start = b.start /\ a.end <= b.end
         IN <<first>> \o in_reference_order(loci \ {first})

\* the output that the inputs determine: one line, with the count 0 that the
\* worker stage gives every read, for every locus that some read spans
expected_output ==
    LET counted == {catalog[x] : x \in DOMAIN catalog}
        seen == {l \in counted : tally(l, TRUE) + tally(l, FALSE) > 0}
        order == in_reference_order(seen)
    IN [x \in DOMAIN order |->
           [contig |-> order[x].contig, start |-> order[x].start, end |-> order[x].end,
            length |-> 0,
            normal_count |-> tally(order[x], TRUE),
            tumor_count |-> tally(order[x], FALSE)]]

\* C13: for a fixed BED file and fixed BAM files, a run that returns Ok has
\* written the same sequence of lines for every thread count and every
\* interleaving of the query threads, the worker threads and the counter
\* thread: the sequence that the inputs alone determine.
C13_InterleavingIndependent ==
    (dpc = "done") => output = expected_output

\* a run on two threads has ended whose output has a locus tallied in both
\* samples
C13_Witness ==
    /\ dpc = "done"
    /\ threads = 2
    /\ Len(catalog) = 2
    /\ \E x \in DOMAIN output : output[x].normal_count > 0 /\ output[x].tumor_count > 0

\* C14: scenario S6: the run on the locus chr1:100-115 with 20 normal reads
\* showing 16 repeats and 10 showing 15, 5 tumor reads showing 16 and 25
\* showing 14, writes three lines: (14, 0, 25), (15, 10, 0), (16, 20, 5).
C14_ScenarioS6 ==
    (dpc = "done" /\ catalog = <<LocusS6>>) =>
        output = << [contig |-> "chr1", start |-> 100, end |-> 115, length |-> 14,
                     normal_count |-> 0, tumor_count |-> 25],
                    [contig |-> "chr1", start |-> 100, end |-> 115, length |-> 15,
                     normal_count |-> 10, tumor_count |-> 0],
                    [contig |-> "chr1", start |-> 100, end |-> 115, length |-> 16,
                     normal_count |-> 20, tumor_count |-> 5] >>

\* a written locus
Locus(contig, start, end, u, n) ==
    [contig |-> contig, start |-> start, end |-> end, unit |-> u, num |-> n]

\* the run on the file of the one given contig has ended
Ran(contig_bases) == fpc = "done" /\ fasta = Some(<<contig_bases>>)

\* C15: scenarios S1 and S2: with min_bases = 10, max_bases = 20,
\* min_repeats = 3 and unit lengths 2..5, the contig CG x 5 yields exactly
\* the locus (1, 10, (CG)5) and the contig CG x 10 exactly (1, 20, (CG)10):
\* the bounds are inclusive and a repeat that runs to the end of the contig
\* ends at the contig's length.
C15_InclusiveBounds ==
    /\ Ran(ContigS1) => bed = <<Locus(1, 1, 10, <<67, 71>>, 5)>>
    /\ Ran(ContigS2) => bed = <<Locus(1, 1, 20, <<67, 71>>, 10)>>

\* the run on CG x 10 has ended and has written a locus that ends with the
\* contig
C15_Witness ==
    /\ Ran(ContigS2)
    /\ opts = OptsTest
    /\ Len(bed) = 1
    /\ bed[1].end = Len(records[1])
    /\ bed[1].end - bed[1].start + 1 = opts.max_bases

\* C16: scenario S3: for the contig ACG x 4 with unit lengths 1..6 and the
\* default bounds, exactly one locus is written, (1, 12, (ACG)4), by the
\* finder of k = 3; no locus has the unit ACGACG or any other unit.
C16_ScenarioS3 ==
    Ran(ContigS3) => bed = <<Locus(1, 1, 12, <<65, 67, 71>>, 4)>>

\* the run on ACG x 4 has ended; its finder of k = 6 holds the repeat
\* ACGACG x 2, which is_repeat rejects, and the locus written has a unit of 3
C16_Witness ==
    /\ Ran(ContigS3)
    /\ opts = OptsDefault(1, 6)
    /\ finders[6].span = 12
    /\ emit(finders[6]) # None
    /\ is_repeat(emit(finders[6])[1].kmer)
    /\ Len(bed) = 1
    /\ Len(bed[1].unit) = 3

\* C17: scenario S4: for the 11-base contig CGCGCGCGCGC with unit length 2,
\* min_bases = 10 and min_repeats = 3, exactly one locus is written,
\* (1, 11, (CG)5): the span includes the trailing base, the repeat number is
\* floor(11 / 2) and the unit starts at the first base of the repeat.
C17_ScenarioS4 ==
    Ran(ContigS4) => bed = <<Locus(1, 1, 11, <<67, 71>>, 5)>>

\* the run on the 11-base contig has ended with a locus whose span is not a
\* multiple of its unit
C17_Witness ==
    /\ Ran(ContigS4)
    /\ opts = OptsDefault(2, 2)
    /\ Len(bed) = 1
    /\ (bed[1].end - bed[1].start + 1) % Len(bed[1].unit) = 1
    /\ bed[1].num * Len(bed[1].unit) < bed[1].end - bed[1].start + 1

\* C18: scenario S5: with the options of the test, the complex contig yields
\* exactly three loci, in this order: (1, 11, (CG)5), (12, 31, (CG)10) and
\* (46, 60, (TGGAT)3); the 9-base ACG block yields none.
C18_ScenarioS5 ==
    Ran(ContigS5) => bed = << Locus(1, 1, 11, <<67, 71>>, 5),
                             Locus(1, 12, 31, <<67, 71>>, 10),
                             Locus(1, 46, 60, <<84, 71, 71, 65, 84>>, 3) >>

\* the run on the complex contig has ended with three loci, none of them in
\* the ACG block at 37..45
C18_Witness ==
    /\ Ran(ContigS5)
    /\ Len(records[1]) = 63
    /\ SubSeq(records[1], 37, 45) = repeat_str(<<65, 67, 71>>, 3)
    /\ Len(bed) = 3
    /\ \A x \in DOMAIN bed : bed[x].end < 37 \/ bed[x].start > 45

\* what run writes for a record when it is the only record of the file: the
\* base loop from fresh finders, then the loop at the end of the contig
RECURSIVE bases_alone(_, _, _, _, _)
bases_alone(o, bases, position, fs, acc) ==
    IF position > Len(bases) THEN acc \o end_loop(o, 1, position, o.min_repeat_length, fs)
    ELSE LET r == base_loop(o, 1, position, ToUpper(bases[position]),
                            o.min_repeat_length, fs, <<>>)
         IN bases_alone(o, bases, position + 1, r.finders, acc \o r.written)

written_alone(o, bases) ==
    bases_alone(o, bases, 1,
                [k \in o.min_repeat_length..o.max_repeat_length |-> KmerFinder_new(k)], <<>>)

\* the loci written for contig c, as loci of contig 1
written_for(c) ==
    LET of_c == SelectSeq(bed, LAMBDA rec : rec.contig = c)
    IN [x \in DOMAIN of_c |-> [of_c[x] EXCEPT !.contig = 1]]

\* the loci written by one step of the run
appended == SubSeq(bed', Len(bed) + 1, Len(bed'))

\* C19: no run fails on a locus that reaches back before the first base of
\* its contig, and every locus lies within its own contig; a step of the run
\* leaves the loci already written as they are and writes loci of the
\* current contig only; and when a contig ends, the loci written for it are
\* exactly those written when the contig is the only record of the file.
C19_ContigIsolation ==
    /\ [](/\ fpc # "panicked"
          /\ \A x \in DOMAIN bed :
                1 <= bed[x].start /\ bed[x].end <= Len(records[bed[x].contig]))
    /\ [][/\ Len(bed) <= Len(bed') /\ SubSeq(bed', 1, Len(bed)) = bed
          /\ \A x \in DOMAIN appended : appended[x].contig = Len(records)
          /\ (fpc = "bases" /\ fpc' = "next_record") =>
                written_for(Len(records))' = written_alone(opts, records[Len(records)])]_vars

\* the first contig ends in a repeat that the second contig's first bases
\* would continue; both contigs have their own locus
C19_Witness ==
    /\ fpc = "done"
    /\ records = <<<<65, 65>>, <<65, 65, 65>>>>
    /\ Len(bed) = 2
    /\ bed[1] = Locus(1, 1, 2, <<65>>, 2)
    /\ bed[2] = Locus(2, 1, 3, <<65>>, 3)

\* C20: for every non-empty byte string u, is_repeat(u) is true if and only
\* if some proper divisor d of |u| has u equal to u[0..d] repeated |u| / d
\* times; it is false for every string of length 1 and for a repeat followed
\* by a partial copy such as CAGCAGCA.
C20_IsRepeatIffNotPrimitive ==
    answer # None =>
        /\ answer[1] = (\E d \in 1..(Len(probe) - 1) :
                           /\ Len(probe) % d = 0
                           /\ probe = repeat_str(SubSeq(probe, 1, d), Len(probe) \div d))
        /\ Len(probe) = 1 => answer[1] = FALSE
        /\ probe = <<67, 65, 71, 67, 65, 71, 67, 65>> => answer[1] = FALSE

\* is_repeat has returned false on CAGCAGCA
C20_Witness ==
    /\ probe = <<67, 65, 71, 67, 65, 71, 67, 65>>
    /\ answer = Some(FALSE)

\* ------------------------------------------------------------------------
\* Properties of one KmerFinder
\* ------------------------------------------------------------------------
\* the last call was of the given kind
called(kind) == step # None /\ step[1].kind = kind

\* C21: emit on a finder of length k with buffer buf, index i and span s
\* returns None if and only if s < k, that is when fewer than k bases were
\* added since the last reset; otherwise it returns a repeat with span s,
\* num_repeats floor(s / k) and kmer[j] = buf[(i - (s mod k) + j) mod k] for
\* every j in 0..k-1; the finder is as it was before the call.
C21_Emit ==
    called("emit") =>
        LET f == step[1].before
            k == KmerFinder_len(f)
            repeat == step[1].retval
        IN /\ (repeat = None) <=> (f.span < k)
           /\ (repeat = None) <=> (Len(fed) < k)
           /\ repeat # None =>
                 /\ repeat[1].span = f.span
                 /\ repeat[1].num_repeats = f.span \div k
                 /\ DOMAIN repeat[1].kmer = 1..k
                 /\ \A j \in 0..(k - 1) :
                       repeat[1].kmer[j + 1] =
                           f.kmer[((f.index + k - (f.span % k) + j) % k) + 1]
           /\ the_finder = f

\* test_emit: the buffer ACG with index 0 and span 5 gives CGA, one copy
C21_Witness ==
    /\ called("emit")
    /\ step[1].before = [kmer |-> <<65, 67, 71>>, index |-> 0, span |-> 5]
    /\ step[1].retval = Some([kmer |-> <<67, 71, 65>>, num_repeats |-> 1, span |-> 5])

\* the length of the longest suffix of bases in which every base equals the
\* base k positions before it
period_suffix(bases, k) ==
    LET n == Len(bases)
        periodic(m) == \A j \in (n - m + 1 + k)..n : bases[j] = bases[j - k]
    IN CHOOSE m \in 0..n : periodic(m) /\ \A l \in (m + 1)..n : ~ periodic(l)

\* the last m of the bases
last_bases(bases, m) == SubSeq(bases, Len(bases) - m + 1, Len(bases))

\* C22: add on a finder of length k returns a repeat only on a base that
\* differs from the base k positions earlier; the repeat is the run
\* accumulated before that base: its span is the length of the longest run of
\* period k that ends just before the base, and its unit is the first k bases
\* of that run.  After such a base emit reports span k, one copy and a unit
\* equal to the last k bases added, the breaking base last.  While the bases
\* match, add returns None and the span that emit reports grows by one.
C22_BreakAndRestart ==
    called("add") =>
        LET f == step[1].before
            k == KmerFinder_len(f)
            n == Len(fed)
            base == step[1].base
            before == SubSeq(fed, 1, n - 1)
            repeat == step[1].retval
            breaks == n - 1 >= k /\ base # fed[n - k]
            matches == n - 1 >= k /\ base = fed[n - k]
        IN /\ fed[n] = base
           /\ repeat # None => breaks
           /\ (breaks /\ step[1].do_emit) =>
                 /\ repeat # None
                 /\ repeat[1].span = period_suffix(before, k)
                 /\ repeat[1].span = emit(f)[1].span
                 /\ repeat[1].num_repeats = repeat[1].span \div k
                 /\ repeat[1].kmer = SubSeq(last_bases(before, repeat[1].span), 1, k)
           /\ breaks =>
                 emit(the_finder) =
                     Some([kmer |-> last_bases(fed, k), num_repeats |-> 1, span |-> k])
           /\ matches =>
                 /\ repeat = None
                 /\ emit(the_finder)[1].span = emit(f)[1].span + 1
                 /\ emit(the_finder)[1].kmer = emit(f)[1].kmer

\* test_trinuc: after ACGA the base T returns the repeat of unit ACG and
\* span 4, and the repeat in progress is GAT with one copy
C22_Witness ==
    /\ called("add")
    /\ fed = <<65, 67, 71, 65, 84>>
    /\ step[1].retval = Some([kmer |-> <<65, 67, 71>>, num_repeats |-> 1, span |-> 4])
    /\ emit(the_finder) = Some([kmer |-> <<71, 65, 84>>, num_repeats |-> 1, span |-> 3])

\* the finder after the bases were added one by one from a new finder, every
\* call with do_emit true
RECURSIVE replay(_, _)
replay(bases, k) ==
    IF bases = <<>> THEN KmerFinder_new(k)
    ELSE add_maybe_emit(replay(SubSeq(bases, 1, Len(bases) - 1), k),
                        bases[Len(bases)], TRUE).finder

\* C23: add_maybe_emit(base, false) and add_maybe_emit(base, true) leave the
\* finder in the same state and differ in the returned value only: the call
\* without emission returns None.  So whichever calls were made without
\* emission, the finder is in the state of a finder that was given the same
\* bases and was always asked to emit.
C23_SuppressionKeepsState ==
    /\ called("add") =>
          /\ the_finder = add_maybe_emit(step[1].before, step[1].base,
                                         ~ step[1].do_emit).finder
          /\ ~ step[1].do_emit => step[1].retval = None
    /\ fpc = "calls" =>
          /\ \A base \in alphabet :
                add_maybe_emit(the_finder, base, FALSE).finder
                    = add_maybe_emit(the_finder, base, TRUE).finder
          /\ the_finder = replay(fed, the_len)

\* a finder of length 2 was given ACAC and then G without emission: it has
\* restarted on CG all the same
C23_Witness ==
    /\ called("add")
    /\ fed = <<65, 67, 65, 67, 71>>
    /\ ~ step[1].do_emit
    /\ step[1].retval = None
    /\ step[1].before = [kmer |-> <<65, 67>>, index |-> 0, span |-> 4]
    /\ the_finder = [kmer |-> <<71, 67>>, index |-> 1, span |-> 2]

\* ------------------------------------------------------------------------
\* Properties of the channels of the repeat counter
\* ------------------------------------------------------------------------
\* every thread of the pool has left its loop, by return or by panic
terminated(pool) == \A w \in DOMAIN pool : pool[w].pc \in {"done", "panicked"}

\* the driver has sent both jobs of every BED record
whole_catalog_enqueued == Len(sent) = 2 * Len(catalog)

\* C24: when the counter thread has written an output line, the counter_job
\* channel is closed and drained, the driver has sent the jobs of the whole
\* BED file, and every BAM query thread and every worker thread has
\* terminated.
C24_DeferredEmission ==
    output # <<>> =>
        /\ counter_q = <<>>
        /\ counter_senders = 0
        /\ whole_catalog_enqueued
        /\ terminated(query_threads)
        /\ terminated(worker_threads)

\* the part of C24 that every run has: the channel is closed and drained and
\* the threads of both pools have terminated
closed_and_drained_before_output ==
    output # <<>> =>
        /\ counter_q = <<>>
        /\ counter_senders = 0
        /\ terminated(query_threads)
        /\ terminated(worker_threads)

failure_free ==
    /\ dpc \notin {"panicked", "errored", "exited_101", "exited_1"}
    /\ apc # "panicked"
    /\ \A w \in DOMAIN query_threads : query_threads[w].pc # "panicked"
    /\ \A w \in DOMAIN worker_threads : worker_threads[w].pc # "panicked"

\* the number of jobs of a sequence that belong to the BED record and sample
count_in(jobs, job) ==
    Cardinality({x \in DOMAIN jobs : job_of(jobs[x].locus, jobs[x].is_normal) = job})

\* the number of jobs the driver has sent for the BED record and sample
sent_count(job) ==
    Cardinality({x \in DOMAIN sent :
                    job_of(catalog[sent[x].ordinal], sent[x].is_normal) = job})

\* the number of CounterJobs the worker threads hold between recv and send
held_by_workers(job) ==
    Cardinality({w \in DOMAIN worker_threads : count_in(worker_threads[w].job, job) = 1})

\* the number of WorkerJobs the query threads have still to send
pending_in_queries(job) ==
    LET RECURSIVE sum(_)
        sum(w) == IF w = 0 THEN 0
                  ELSE count_in(query_threads[w].pending, job) + sum(w - 1)
    IN sum(Len(query_threads))

\* the reads the counter thread has tallied for the BED record and sample
tallied(job) ==
    LET repeat == Lookup(counter, locus_to_string(job.locus), <<>>)
        RECURSIVE sum(_)
        sum(lengths) == IF lengths = {} THEN 0
                        ELSE LET l == CHOOSE x \in lengths : TRUE
                             IN Lookup(repeat[l], job.is_normal, 0) + sum(lengths \ {l})
    IN sum(DOMAIN repeat)

\* the sum of normal_reads and tumor_reads over the lines
RECURSIVE reads_in(_)
reads_in(lines) ==
    IF lines = <<>> THEN 0
    ELSE Head(lines).normal_count + Head(lines).tumor_count + reads_in(Tail(lines))

\* the jobs that the BED file gives rise to
jobs_of_catalog == {job_of(catalog[x], n) : x \in DOMAIN catalog, n \in BOOLEAN}

\* the number of WorkerJobs the query threads have sent
total_enqueued ==
    LET RECURSIVE sum(_)
        sum(jobs) == IF jobs = {} THEN 0
                     ELSE LET j == CHOOSE x \in jobs : TRUE
                          IN flow.enqueued[j] + sum(jobs \ {j})
    IN sum(DOMAIN flow.enqueued)

\* C26: in a run without failure every job is accounted for at every moment:
\* the query jobs sent are those received by the query threads plus those in
\* the channel, the read jobs enqueued are those received by the worker
\* threads plus those in the channel, the jobs the worker threads received
\* are those the counter thread received plus those in its channel or in a
\* worker's hands, and the counter thread has tallied each job it received
\* once.  When the run has ended the channels are empty, the normal_reads and
\* tumor_reads of the output add up to the number of read jobs enqueued, and
\* a locus is in the output if and only if a read job was enqueued for it.
C26_ExactlyOnce ==
    failure_free =>
        /\ DOMAIN flow.queried \subseteq jobs_of_catalog
        /\ DOMAIN flow.enqueued \subseteq jobs_of_catalog
        /\ \A job \in jobs_of_catalog :
              /\ sent_count(job) = bag_count(flow.queried, job) + count_in(bam_query_q, job)
              /\ bag_count(flow.enqueued, job) =
                    bag_count(flow.worked, job) + count_in(worker_q, job)
              /\ bag_count(flow.worked, job) =
                    bag_count(flow.counted, job) + count_in(counter_q, job)
                        + held_by_workers(job)
              /\ bag_count(flow.counted, job) = tallied(job)
        /\ dpc = "done" =>
              /\ bam_query_q = <<>> /\ worker_q = <<>> /\ counter_q = <<>>
              /\ \A job \in jobs_of_catalog :
                    /\ pending_in_queries(job) = 0
                    /\ held_by_workers(job) = 0
                    /\ bag_count(flow.queried, job) = sent_count(job)
              /\ reads_in(output) = total_enqueued
              /\ \A x \in DOMAIN catalog :
                    (\E l \in DOMAIN output :
                        /\ output[l].contig = catalog[x].contig
                        /\ output[l].start = catalog[x].start
                        /\ output[l].end = catalog[x].end)
                    <=> (\E n \in BOOLEAN :
                            bag_count(flow.enqueued, job_of(catalog[x], n)) > 0)

\* a run on two threads has ended without failure: two loci, three read jobs
\* enqueued and three reads in the output
C26_Witness ==
    /\ failure_free
    /\ dpc = "done"
    /\ threads = 2
    /\ Len(catalog) = 2
    /\ total_enqueued = 3
    /\ reads_in(output) = 3

\* C30: as long as no thread has panicked, every thread that is about to
\* send finds a receiver on its channel: the driver on bam_query_job, a query
\* thread on worker_job, a worker thread on counter_job.  So no send fails:
\* run does not return the error of a failed send, and no worker thread and
\* no counter thread panics.
C30_NoSendOnClosed ==
    /\ dpc \notin {"errored", "exited_1"}
    /\ apc # "panicked"
    /\ \A w \in DOMAIN worker_threads : worker_threads[w].pc # "panicked"
    /\ (\A w \in DOMAIN query_threads : query_threads[w].pc # "panicked") =>
          /\ dpc = "enqueue" => bam_query_receivers > 0
          /\ \A w \in DOMAIN query_threads :
                query_threads[w].pc = "busy" => worker_receivers > 0
          /\ \A w \in DOMAIN worker_threads :
                worker_threads[w].pc = "send" => counter_receivers > 0

\* the driver has panicked on a BED contig and its receivers are gone; a
\* query thread is about to send, and the worker threads still receive
C30_Witness ==
    /\ dpc = "panicked"
    /\ \A w \in DOMAIN query_threads : query_threads[w].pc # "panicked"
    /\ \E w \in DOMAIN query_threads : query_threads[w].pc = "busy"
    /\ worker_receivers = threads
    /\ ENABLED (\E w \in DOMAIN query_threads : QuerySend(w))

\* ------------------------------------------------------------------------
\* Properties of the loci of the finder
\* ------------------------------------------------------------------------
\* C28: every locus written has 1 <= start <= end <= length of its contig,
\* and end - start + 1 is the span of the repeat it was made from; the run
\* never fails on a start position below 1; and within one contig the end
\* positions of the loci grow strictly in the order they are written.
C28_WellFormedEndOrdered ==
    /\ fpc # "panicked"
    /\ \A x \in DOMAIN bed :
          /\ 1 <= bed[x].start
          /\ bed[x].start <= bed[x].end
          /\ bed[x].end <= Len(records[bed[x].contig])
    /\ step # None =>
          \A w \in DOMAIN step[1].written :
              LET rec == step[1].written[w]
              IN /\ Len(rec.unit) \in DOMAIN step[1].before
                 /\ SpanOf(rec) = step[1].before[Len(rec.unit)].span
                 /\ rec.start = step[1].position - step[1].before[Len(rec.unit)].span
    /\ \A x, y \in DOMAIN bed :
          (x < y /\ bed[x].contig = bed[y].contig) => bed[x].end < bed[y].end

\* a contig with two loci: the first starts at the first base, the second
\* starts before the first ends and reaches the last base
C28_Witness ==
    /\ fpc = "next_record"
    /\ Len(bed) = 2
    /\ bed[1].contig = bed[2].contig
    /\ bed[1].start = 1
    /\ bed[2].start <= bed[1].end
    /\ bed[2].end = Len(records[bed[2].contig])

\* the upper-cased base at a position of a contig
base_at(c, p) == ToUpper(records[c][p])

\* C27: every locus written, with a unit of length k, is a maximal run of
\* period k of its contig: when the locus does not end at the last base, the
\* base after it differs from the base k positions before that one, and
\* when it does not start at the first base, the base before it differs
\* from the base k positions after that one.
C27_Maximal ==
    \A x \in DOMAIN bed :
        LET rec == bed[x]
            k == Len(rec.unit)
        IN /\ rec.end < Len(records[rec.contig]) =>
                 base_at(rec.contig, rec.end + 1) # base_at(rec.contig, rec.end + 1 - k)
           /\ rec.start > 1 =>
                 base_at(rec.contig, rec.start - 1) # base_at(rec.contig, rec.start - 1 + k)

\* a locus with a unit of two bases that lies inside its contig
C27_Witness ==
    \E x \in DOMAIN bed :
        /\ Len(bed[x].unit) = 2
        /\ bed[x].start > 1
        /\ bed[x].end < Len(records[bed[x].contig])

\* the bases s..e of contig c have period k
is_run(c, k, s, e) ==
    /\ 1 <= s /\ s <= e /\ e <= Len(records[c])
    /\ \A p \in (s + k)..e : base_at(c, p) = base_at(c, p - k)

\* the run cannot be extended by a base on either side
maximal_run(c, k, s, e) ==
    /\ is_run(c, k, s, e)
    /\ e - s + 1 >= k
    /\ s > 1 => base_at(c, s - 1) # base_at(c, s - 1 + k)
    /\ e < Len(records[c]) => base_at(c, e + 1) # base_at(c, e + 1 - k)

unit_of_run(c, k, s) == [x \in 1..k |-> base_at(c, s + x - 1)]

\* the run passes the filters of the options
qualifies(c, k, s, e) ==
    /\ opts.min_bases <= e - s + 1
    /\ e - s + 1 <= opts.max_bases
    /\ (e - s + 1) \div k >= opts.min_repeats
    /\ IsPrimitive(unit_of_run(c, k, s))

\* the finder has gone past the end of the run: it has read the base after
\* it, or the contig is finished
gone_past(c, e) ==
    \/ e < Len(records[c])
    \/ c < Len(records)
    \/ fpc \in {"next_record", "done"}

\* a run of a smaller period that passes the filters ends at the same base
suppressed(c, k, e) ==
    \E k2 \in opts.min_repeat_length..(k - 1) : \E s2 \in 1..e :
        maximal_run(c, k2, s2, e) /\ qualifies(c, k2, s2, e)

\* C29: with min_repeats >= 1, for every k of the range and every maximal
\* run of period k of a contig that passes the filters (span within
\* min_bases..max_bases, at least min_repeats copies, primitive unit) and
\* that the finder has gone past, the locus of exactly that interval and
\* unit has been written, unless a run of a smaller period of the range that
\* passes the filters ends at the same base; in that case it has not.
C29_Complete ==
    opts.min_repeats >= 1 =>
        \A c \in DOMAIN records :
            \A k \in opts.min_repeat_length..opts.max_repeat_length :
                \A s, e \in 1..Len(records[c]) :
                    (maximal_run(c, k, s, e) /\ qualifies(c, k, s, e) /\ gone_past(c, e)) =>
                        ((\E x \in DOMAIN bed :
                              bed[x] = Locus(c, s, e, unit_of_run(c, k, s), (e - s + 1) \div k))
                         <=> ~ suppressed(c, k, e))

\* a run of period 3 with two copies passes the filters and is not written,
\* because a run of period 1 that ends at the same base is
C29_Witness ==
    /\ fpc = "done"
    /\ Len(records[1]) = 6
    /\ \E c \in DOMAIN records : \E s, e \in 1..Len(records[c]) :
          /\ maximal_run(c, 3, s, e) /\ qualifies(c, 3, s, e)
          /\ suppressed(c, 3, e)
          /\ \A x \in DOMAIN bed : Len(bed[x].unit) # 3
          /\ \E x \in DOMAIN bed : bed[x].end = e /\ Len(bed[x].unit) = 1

====
